---- MODULE Spec2Model ----
(***************************************************************************)
(* Model of NefitEMS.py: the EMS bus reader.  Bytes are read one at a time *)
(* from the serial port, split into messages at BREAK markers (0xff 0x00   *)
(* 0x00), de-stuffed, CRC-checked, filtered on the message type and handed *)
(* to the parse function of that type, which pushes values to Domoticz.    *)
(*                                                                         *)
(* Representation.  The program keeps every byte as the string produced by *)
(* numpy.uint8(..).__hex__() ('0xff', '0x0', '0x18') and parses it back    *)
(* with int(..,16).  A hex string is modelled as the tuple of its hex      *)
(* digits (no leading zero): '0xff' is <<15,15>>, '0x0' is <<0>>.          *)
(* Python floats are modelled as exact rationals <<numerator,denominator>> *)
(* in lowest terms.                                                        *)
(***************************************************************************)
EXTENDS Integers, Sequences, FiniteSets, TLC

VARIABLES
  pc,          \* where the single thread of the program is
  Message,     \* NextMessage.Message; after its return the message handed on
  BreakBytes,  \* NextMessage.BreakBytes
  Candidate,   \* history: the accumulated buffer at the BREAK just confirmed
  did,         \* history: what NextMessage did in its last step
  Discarded,   \* history, where the bytes on the wire are given: the running
               \* NextMessage call has thrown a buffer away
  OK,          \* the value of the last CRCOK call
  decoder,     \* the parse function running (or to run)
  Result,      \* the parse function's Result dictionary
  todo,        \* the Domoticz URLs the running parse function still pushes to
  Sink,        \* what Domoticz received for the current message
  exc,         \* the exception that ended the process ("none" while it runs)
  Input,       \* the bytes on the wire still to be read, where they are given
  Expected     \* history: the messages sent on the wire and not yet returned

vars == <<pc, Message, BreakBytes, Candidate, did, Discarded, OK, decoder,
          Result, todo, Sink, exc, Input, Expected>>

----------------------------------------------------------------------------
(* Bounds of the model.                                                     *)

\* longest accumulated buffer of a message that is not one of the templates
MaxRaw == 6
\* longest buffer handed to CalculateNefitEMSCRC / CRCOK on their own
MaxCrcLen == 3
\* longest run of bytes read before the BREAK of a buffer handed to
\* PostProcessMessage on its own
MaxStuffed == 6
\* longest list of bytes handed to ConvertToFloat / ConvertToint on their own
MaxWidth == 4
\* most messages sent on the wire one after the other
MaxFrames == 2
\* most bytes read before the BREAK that comes before a message
MaxNoise == 4
\* highest temperature (and, negated, the lowest) handed to
\* CalculateSystemEfficiency on its own, in degrees
MaxTemperature == 110

----------------------------------------------------------------------------
(* Bytes and their hex strings.                                             *)

Byte == 0..255

\* numpy.uint8(b).__hex__()
Hex(b) == IF b < 16 THEN <<b>> ELSE <<b \div 16, b % 16>>

\* int(s, 16)
Int16(s) == IF Len(s) = 1 THEN s[1] ELSE 16 * s[1] + s[2]

\* the literals '0xff' and '0x0' of NextMessage and PostProcessMessage
FF == <<15, 15>>
ZERO == <<0>>

\* bit k (a power of two) of a
Bit(a, k) == (a \div k) % 2

\* a ^ b on 8-bit values
Xor(a, b) ==
    ((Bit(a, 1) + Bit(b, 1)) % 2)
  + 2 * ((Bit(a, 2) + Bit(b, 2)) % 2)
  + 4 * ((Bit(a, 4) + Bit(b, 4)) % 2)
  + 8 * ((Bit(a, 8) + Bit(b, 8)) % 2)
  + 16 * ((Bit(a, 16) + Bit(b, 16)) % 2)
  + 32 * ((Bit(a, 32) + Bit(b, 32)) % 2)
  + 64 * ((Bit(a, 64) + Bit(b, 64)) % 2)
  + 128 * ((Bit(a, 128) + Bit(b, 128)) % 2)

\* a & mask for a mask made of one bit
HasBit(a, bit) == Bit(a, bit) = 1

----------------------------------------------------------------------------
(* CRC.                                                                     *)

\* CRCStep with the carry-in bit d forgotten
CRCStepNoCarry(crc, Entry) ==
  LET c1 == IF HasBit(crc, 128) THEN Xor(crc, 12) ELSE crc
      c2 == (c1 * 2) % 256
  IN  Xor(c2, Int16(Entry))

\* one pass of the loop body of CalculateNefitEMSCRC
CRCStep(crc, Entry) ==
  LET d == IF HasBit(crc, 128) THEN 1 ELSE 0
      c1 == IF HasBit(crc, 128) THEN Xor(crc, 12) ELSE crc
      c2 == (c1 * 2) % 256        \* (crc << 1) & 0xfe
      c3 == c2 + d                \* crc |= d (bit 0 of c2 is clear)
  IN  Xor(c3, Int16(Entry))

\* the for loop of CalculateNefitEMSCRC over buf, entered with crc; the test
\* that crc is still an 8-bit value makes TLC finish a pass before the next
RECURSIVE CRCOver(_, _)
CRCOver(crc, buf) ==
  IF buf = <<>> THEN crc
  ELSE LET next == CRCStep(crc, Head(buf))
       IN  IF next \in Byte THEN CRCOver(next, Tail(buf)) ELSE next

\* AllButLast with the slice forgotten: the CRC runs over the CRC byte too
AllButLastWhole(buf) == buf

\* AllButLast with the slice one byte too short: SerialBuffer[:-2]
AllButLastTwo(buf) == IF Len(buf) < 2 THEN <<>> ELSE SubSeq(buf, 1, Len(buf) - 2)

\* SerialBuffer[:-1]
AllButLast(buf) == IF buf = <<>> THEN <<>> ELSE SubSeq(buf, 1, Len(buf) - 1)

CalculateNefitEMSCRC(SerialBuffer) == CRCOver(0, AllButLast(SerialBuffer))

\* CRCOK comparing the CRC with the first byte of the buffer
CRCOKFirstByte(SerialBuffer) ==
  CalculateNefitEMSCRC(SerialBuffer) = Int16(SerialBuffer[1])

\* CRCOK; SerialBuffer is not empty wherever the program calls it
CRCOK(SerialBuffer) ==
  CalculateNefitEMSCRC(SerialBuffer) = Int16(SerialBuffer[Len(SerialBuffer)])

----------------------------------------------------------------------------
(* De-stuffing.                                                             *)

\* the loop of PostProcessMessage: ByteRemoved toggles at every '0xff'
RECURSIVE PostProcessLoop(_, _)
PostProcessLoop(msg, ByteRemoved) ==
  IF msg = <<>> THEN <<>>
  ELSE IF Head(msg) = FF
       THEN IF ~ByteRemoved
            THEN PostProcessLoop(Tail(msg), TRUE)
            ELSE <<FF>> \o PostProcessLoop(Tail(msg), FALSE)
       ELSE <<Head(msg)>> \o PostProcessLoop(Tail(msg), ByteRemoved)

\* PostProcessMessage left out: the buffer goes on as it was accumulated
PostProcessSkipped(msg) == msg

PostProcessMessage(msg) ==
  IF \E i \in 1..Len(msg) : msg[i] = FF
  THEN PostProcessLoop(msg, FALSE)
  ELSE msg

\* what the serial driver with PARMRK set makes of the bytes of a message:
\* "replace each 0xff in the bytestream with 0xff 0xff"
RECURSIVE Stuffed(_)
Stuffed(msg) ==
  IF msg = <<>> THEN <<>>
  ELSE (IF Head(msg) = FF THEN <<FF, FF>> ELSE <<Head(msg)>>) \o Stuffed(Tail(msg))

----------------------------------------------------------------------------
(* Floats, as exact rationals.                                              *)

RECURSIVE GCD(_, _)
GCD(a, b) == IF b = 0 THEN a ELSE GCD(b, a % b)

Abs(n) == IF n < 0 THEN 0 - n ELSE n

\* the float n/d (d > 0), in lowest terms
Float(n, d) ==
  LET g == GCD(Abs(n), d) IN <<n \div g, d \div g>>

FloatSub(x, y) == Float(x[1] * y[2] - y[1] * x[2], x[2] * y[2])
FloatAdd(x, y) == Float(x[1] * y[2] + y[1] * x[2], x[2] * y[2])
FloatMul(x, y) == Float(x[1] * y[1], x[2] * y[2])

\* int(x) of a float x: the fraction is cut off, towards zero
FloatToInt(x) ==
  IF x[1] >= 0 THEN x[1] \div x[2] ELSE 0 - ((0 - x[1]) \div x[2])

----------------------------------------------------------------------------
(* Message data conversion functions.                                       *)

\* ConvertToint
ConvertToint(MsgData) ==
  IF Len(MsgData) = 1 THEN Int16(MsgData[1])
  ELSE IF Len(MsgData) = 2 THEN 256 * Int16(MsgData[1]) + Int16(MsgData[2])
  ELSE IF Len(MsgData) = 3
       THEN 65536 * Int16(MsgData[1]) + 256 * Int16(MsgData[2]) + Int16(MsgData[3])
  ELSE 0

\* ConvertToFloat taking three bytes as ConvertToint does
ConvertToFloatThree(MsgData, scalar) ==
  IF Len(MsgData) = 1 THEN FloatMul(Float(Int16(MsgData[1]), 1), scalar)
  ELSE IF Len(MsgData) = 2
       THEN FloatMul(Float(256 * Int16(MsgData[1]) + Int16(MsgData[2]), 1), scalar)
  ELSE IF Len(MsgData) = 3
       THEN FloatMul(Float(65536 * Int16(MsgData[1]) + 256 * Int16(MsgData[2])
                             + Int16(MsgData[3]), 1), scalar)
  ELSE Float(0, 1)

\* ConvertToFloat; scalar is a float
ConvertToFloat(MsgData, scalar) ==
  IF Len(MsgData) = 1 THEN FloatMul(Float(Int16(MsgData[1]), 1), scalar)
  ELSE IF Len(MsgData) = 2
       THEN FloatMul(Float(256 * Int16(MsgData[1]) + Int16(MsgData[2]), 1), scalar)
  ELSE Float(0, 1)

\* the scalars 1.0, 0.1 and 0.5 the parse functions pass
One == Float(1, 1)
Tenth == Float(1, 10)
Half == Float(1, 2)

----------------------------------------------------------------------------
(* The dictionaries.                                                        *)

\* StatusDictionary; a status code is the pair of its two character codes
StatusDictionary ==
  ( <<45, 65>> :> "Service Mode Enabled" ) @@
  ( <<45, 72>> :> "Heating Mode Enabled" ) @@
  ( <<61, 72>> :> "Domestic Hot Water Mode Enabled" ) @@
  ( <<48, 65>> :> "Waiting..." ) @@
  ( <<48, 67>> :> "Preparing to Ignite the burner" ) @@
  ( <<48, 69>> :> "Waiting, anti-pendel" ) @@
  ( <<48, 72>> :> "Standby, ready to heat" ) @@
  ( <<48, 76>> :> "Adjusting Gas intake" ) @@
  ( <<48, 85>> :> "Starting up the unit" )

\* the values of EfficiencyDictionary for the keys 10..100, in tenths
EfficiencyTenths ==
  << 1110, 1108, 1106, 1104, 1102, 1100, 1098, 1096, 1094, 1092,
     1090, 1087, 1084, 1081, 1078, 1075, 1072, 1069, 1066, 1063,
     1060, 1055, 1050, 1045, 1040, 1035, 1030, 1025, 1020, 1015,
     1010, 1002, 994, 986, 978, 970, 962, 954, 946, 938,
     930, 897, 894, 891, 888, 885, 882, 879, 876, 873,
     870, 867, 864, 861, 858, 855, 852, 849, 846, 843,
     840, 837, 834, 831, 828, 825, 822, 819, 816, 813,
     810, 807, 804, 801, 798, 795, 792, 789, 786, 783,
     780, 777, 774, 771, 768, 765, 762, 759, 756, 753, 750 >>

\* EfficiencyDictionary with its last entry (100) missing
EfficiencyKeysTo99 == 10..99

\* the keys of EfficiencyDictionary
EfficiencyKeys == 10..100

\* float(EfficiencyDictionary[k]) for a key k
EfficiencyDictionary(k) == Float(EfficiencyTenths[k - 9], 10)

\* CalculateSystemEfficiency raises KeyError: one of its two lookups misses
EfficiencyKeyError(Temperature) ==
  \/ FloatToInt(Temperature) \notin EfficiencyKeys
  \/ FloatToInt(Temperature) + 1 \notin EfficiencyKeys

\* CalculateSystemEfficiency, where it raises nothing
CalculateSystemEfficiency(Temperature) ==
  LET LowValue == EfficiencyDictionary(FloatToInt(Temperature))
      HighValue == EfficiencyDictionary(FloatToInt(Temperature) + 1)
      Fraction == FloatSub(Temperature, Float(FloatToInt(Temperature), 1))
  IN  FloatAdd(LowValue, FloatMul(Fraction, FloatSub(HighValue, LowValue)))

----------------------------------------------------------------------------
(* The parse functions.  A message is indexed from 0 in the program and    *)
(* from 1 here: Msg[2] of the program is At(Msg, 2).                        *)

At(Msg, i) == Msg[i + 1]

NoRecord == [x \in {} |-> 0]

\* MessageParseDispatcher with the functions of 0x18 and 0x19 exchanged
DispatcherSwapped ==
  ( Hex(24) :> "UBAMonitorSlow" ) @@
  ( Hex(25) :> "UBAMonitorFast" ) @@
  ( Hex(52) :> "UBAMonitorWWMessage" ) @@
  ( Hex(145) :> "Moduline300Status" )

\* the keys of MessageParseDispatcher and the functions it maps them to
MessageParseDispatcher ==
  ( Hex(24) :> "UBAMonitorFast" ) @@
  ( Hex(25) :> "UBAMonitorSlow" ) @@
  ( Hex(52) :> "UBAMonitorWWMessage" ) @@
  ( Hex(145) :> "Moduline300Status" )

Decoders == {"UBAMonitorFast", "UBAMonitorSlow", "UBAMonitorWWMessage",
             "Moduline300Status"}

\* the message type and size each parse function checks for
OwnType(d) ==
  CASE d = "UBAMonitorFast" -> Hex(24)
    [] d = "UBAMonitorSlow" -> Hex(25)
    [] d = "UBAMonitorWWMessage" -> Hex(52)
    [] d = "Moduline300Status" -> Hex(145)

OwnSize(d) ==
  CASE d = "UBAMonitorFast" -> 30
    [] d = "UBAMonitorSlow" -> 32
    [] d = "UBAMonitorWWMessage" -> 22
    [] d = "Moduline300Status" -> 19

\* the sanity check with the test of the type forgotten
SanitySizeOnly(d, Msg) == Len(Msg) = OwnSize(d)

\* "First do sanity check on MsgID and size"; Msg has a byte 2
Sanity(d, Msg) == At(Msg, 2) = OwnType(d) /\ Len(Msg) = OwnSize(d)

\* SystemStatus with the values of '-H' and '=H' exchanged
SystemStatusSwapped(StatusCode) ==
  IF StatusCode = <<45, 72>> THEN 2
  ELSE IF StatusCode = <<61, 72>> THEN 1
  ELSE 0

\* Result['SystemStatus'] for a status code of StatusDictionary
SystemStatus(StatusCode) ==
  IF StatusCode = <<45, 72>> THEN 1
  ELSE IF StatusCode = <<61, 72>> THEN 2
  ELSE 0

\* Result of UBAMonitorFast up to its first push: Result['SystemStatus'] and
\* Result['Efficiency'] are set later
FastFields(Msg) ==
  LET StatusCode == <<Int16(At(Msg, 22)), Int16(At(Msg, 23))>>
      Flow == ConvertToFloat(<<At(Msg, 5), At(Msg, 6)>>, Tenth)
      Return == ConvertToFloat(<<At(Msg, 17), At(Msg, 18)>>, Tenth)
      base ==
        [ RequestedFlowTemperature |-> ConvertToFloat(<<At(Msg, 4)>>, One),
          FlowTemperature |-> Flow,
          RequestedBurnerDutyCycle |-> ConvertToFloat(<<At(Msg, 7)>>, One),
          BurnerDutyCycle |-> ConvertToFloat(<<At(Msg, 8)>>, One),
          Boiler |-> ConvertToFloat(<<At(Msg, 15), At(Msg, 16)>>, Tenth),
          FlowReturnTemperature |-> Return,
          IonizationCurrent |-> ConvertToFloat(<<At(Msg, 19), At(Msg, 20)>>, Tenth),
          Pressure |-> ConvertToFloat(<<At(Msg, 21)>>, Tenth),
          StatusCode |-> StatusCode,
          ErrorCode |-> ConvertToint(<<At(Msg, 24), At(Msg, 25)>>),
          DeltaT |-> FloatSub(Flow, Return) ]
  IN  IF StatusCode \in DOMAIN StatusDictionary
      THEN base @@ [ StatusText |-> StatusDictionary[StatusCode] ]
      ELSE base

SlowFields(Msg) ==
  LET BurnerRuntime == ConvertToint(<<At(Msg, 17), At(Msg, 18), At(Msg, 19)>>)
      HeatingRuntime == ConvertToint(<<At(Msg, 23), At(Msg, 24), At(Msg, 25)>>)
  IN  [ BurnerOutWaterTemperature |-> ConvertToFloat(<<At(Msg, 6), At(Msg, 7)>>, Tenth),
        PumpDutyCycle |-> ConvertToFloat(<<At(Msg, 13)>>, One),
        BurnerStarts |-> ConvertToint(<<At(Msg, 14), At(Msg, 15), At(Msg, 16)>>),
        BurnerRuntimeInMinutes |-> BurnerRuntime,
        HeatingRuntimeInMinutes |-> HeatingRuntime,
        HotWaterRuntimeInMinutes |-> BurnerRuntime - HeatingRuntime ]

Moduline300Fields(Msg) ==
  [ Setpoint |-> ConvertToFloat(<<At(Msg, 5)>>, Half),
    Actual |-> ConvertToFloat(<<At(Msg, 15), At(Msg, 16)>>, Tenth) ]

WWFields(Msg) ==
  [ BoilerTemperature |-> ConvertToFloat(<<At(Msg, 7), At(Msg, 8)>>, Tenth),
    WarmWaterOutTemperature |-> ConvertToFloat(<<At(Msg, 5), At(Msg, 6)>>, Tenth),
    WarmWaterFlow |-> ConvertToFloat(<<At(Msg, 13)>>, Tenth) ]

Fields(d, Msg) ==
  CASE d = "UBAMonitorFast" -> FastFields(Msg)
    [] d = "UBAMonitorSlow" -> SlowFields(Msg)
    [] d = "UBAMonitorWWMessage" -> WWFields(Msg)
    [] d = "Moduline300Status" -> Moduline300Fields(Msg)

\* Pushes of parse functions that leave every push to their caller
PushesNone(d, R) == <<>>

\* the URLs a parse function pushes to, in the order of its calls of
\* UpdateDomoticzText and UpdateDomoticz
Pushes(d, R) ==
  CASE d = "UBAMonitorFast" ->
         (IF "StatusText" \in DOMAIN R THEN <<"StatusURL", "SystemStatusURL">>
          ELSE <<>>) \o
         <<"DeltaTURL", "FlowTemperatureURL", "ReturnFlowTemperatureURL",
           "BurnerDutyCycleURL", "SystemPressureURL", "IonizationCurrentURL",
           "SystemEfficiencyURL">>
    [] d = "UBAMonitorSlow" ->
         <<"BurnerTemperatureURL", "PumpDutyCycleURL", "RuntimeHeatingURL",
           "RuntimeHotWaterURL", "BurnerStartsURL">>
    [] d = "UBAMonitorWWMessage" -> <<"HotWaterFlowURL">>
    [] d = "Moduline300Status" -> <<"RoomTemperatureURL", "RoomSetpointURL">>

\* the value pushed to each URL, from the Result dictionary
Pushed(URL, R) ==
  CASE URL = "StatusURL" -> R.StatusText
    [] URL = "SystemStatusURL" -> R.SystemStatus
    [] URL = "DeltaTURL" -> R.DeltaT
    [] URL = "FlowTemperatureURL" -> R.FlowTemperature
    [] URL = "ReturnFlowTemperatureURL" -> R.FlowReturnTemperature
    [] URL = "BurnerDutyCycleURL" -> R.BurnerDutyCycle
    [] URL = "SystemPressureURL" -> R.Pressure
    [] URL = "IonizationCurrentURL" -> R.IonizationCurrent
    [] URL = "SystemEfficiencyURL" -> R.Efficiency
    [] URL = "BurnerTemperatureURL" -> R.BurnerOutWaterTemperature
    [] URL = "PumpDutyCycleURL" -> R.PumpDutyCycle
    [] URL = "RuntimeHeatingURL" -> Float(R.HeatingRuntimeInMinutes, 60)
    [] URL = "RuntimeHotWaterURL" -> Float(R.HotWaterRuntimeInMinutes, 60)
    [] URL = "BurnerStartsURL" -> R.BurnerStarts
    [] URL = "HotWaterFlowURL" -> R.WarmWaterFlow
    [] URL = "RoomTemperatureURL" -> R.Actual
    [] URL = "RoomSetpointURL" -> R.Setpoint

----------------------------------------------------------------------------
(* The byte source.  MyEMS.read(1) can return any byte; the model offers,  *)
(* at each read, the bytes of a small alphabet while the buffer is short,  *)
(* the byte that closes the buffer with its CRC, and the bytes that extend *)
(* the buffer along one of the full-size messages of a registered type.    *)

\* the bytes offered for short buffers: 0x00, 0xff, 0x08 and 0x18
Alphabet == {0, 255, 8, 24}

\* the message types offered at byte 2 of a buffer
TypeBytes == {24, 25, 52, 145}

\* the pairs offered for bytes 17,18 of a 0x18 message (the return flow
\* temperature 0.0, 45.3, 99.9 and 100.0)
ReturnTemps == {<<0, 0>>, <<1, 197>>, <<3, 231>>, <<3, 232>>}

\* the pairs offered for bytes 22,23 of a 0x18 message: none, '-H', '=H',
\* '0A', '-A' and '=A'
StatusCodes ==
  {<<0, 0>>, <<45, 72>>, <<61, 72>>, <<48, 65>>, <<45, 65>>, <<61, 65>>}

\* the bytes offered at place i (from 0) of a full-size message m of type t,
\* m[1..i] being in place
TemplateBytes(t, m, i) ==
  IF i + 1 = OwnSize(MessageParseDispatcher[t])
  THEN {0, CRCOver(0, SubSeq(m, 1, i))}
  ELSE IF t = Hex(24) /\ i = 17 THEN {p[1] : p \in ReturnTemps}
  ELSE IF t = Hex(24) /\ i = 18
       THEN {p[2] : p \in {q \in ReturnTemps : q[1] = Int16(At(m, 17))}}
  ELSE IF t = Hex(24) /\ i = 22 THEN {p[1] : p \in StatusCodes}
  ELSE IF t = Hex(24) /\ i = 23
       THEN {p[2] : p \in {q \in StatusCodes : q[1] = Int16(At(m, 22))}}
  ELSE IF t = Hex(24) /\ i = 6 THEN {0, 250}
  ELSE IF t = Hex(25) /\ i \in {19, 25} THEN {0, 90}
  ELSE IF t = Hex(52) /\ i = 13 THEN {0, 25}
  ELSE IF t = Hex(145) /\ i = 5 THEN {0, 43}
  ELSE IF t = Hex(145) /\ i = 16 THEN {0, 43, 255}
  ELSE {0}

\* m is the start of a full-size message: 0x08 0x00 <type> 0x00 and then
\* offered bytes only
Template(m) ==
  /\ Len(m) >= 4
  /\ m[1] = Hex(8) /\ m[2] = ZERO /\ m[4] = ZERO
  /\ m[3] \in DOMAIN MessageParseDispatcher
  /\ Len(m) <= OwnSize(MessageParseDispatcher[m[3]])
  /\ \A i \in 4..(Len(m) - 1) : Int16(At(m, i)) \in TemplateBytes(m[3], m, i)

\* the bytes offered while the buffer m is short
ShortBytes(m) ==
  Alphabet \cup {CRCOver(0, PostProcessMessage(m))}
           \cup (IF Len(m) = 2 THEN TypeBytes ELSE {})

\* every byte the model ever offers
Offered ==
  Alphabet \cup TypeBytes \cup {1, 3, 197, 231, 232, 45, 61, 48, 72, 65, 250, 90, 25, 43}

\* Accumulate dropping the 0xff held back when the next byte is not 0x00
AccumulateSingle(m, bb, b) ==
  IF bb = 0 THEN (IF Hex(b) = FF THEN m ELSE Append(m, Hex(b)))
  ELSE IF bb = 1 THEN (IF Hex(b) = ZERO THEN m ELSE Append(m, Hex(b)))
  ELSE (IF Hex(b) = ZERO THEN m ELSE m \o <<FF, ZERO, Hex(b)>>)

\* Accumulate losing the byte read when the buffer is empty
AccumulateLate(m, bb, b) ==
  IF bb = 0 THEN (IF Hex(b) = FF \/ m = <<>> THEN m ELSE Append(m, Hex(b)))
  ELSE IF bb = 1 THEN (IF Hex(b) = ZERO THEN m ELSE m \o <<FF, Hex(b)>>)
  ELSE (IF Hex(b) = ZERO THEN m ELSE m \o <<FF, ZERO, Hex(b)>>)

\* what NextMessage appends to Message on reading b (nothing while a BREAK
\* may be starting)
Accumulate(m, bb, b) ==
  IF bb = 0 THEN (IF Hex(b) = FF THEN m ELSE Append(m, Hex(b)))
  ELSE IF bb = 1 THEN (IF Hex(b) = ZERO THEN m ELSE m \o <<FF, Hex(b)>>)
  ELSE (IF Hex(b) = ZERO THEN m ELSE m \o <<FF, ZERO, Hex(b)>>)

\* Advance with the byte that ends a possible BREAK scanned again: a 0xff
\* leaves BreakBytes at 1
AdvanceRescan(bb, b) ==
  IF Hex(b) = FF THEN 1
  ELSE IF bb = 1 /\ Hex(b) = ZERO THEN 2
  ELSE 0

\* BreakBytes after NextMessage has read b, short of a complete BREAK
Advance(bb, b) ==
  IF bb = 0 /\ Hex(b) = FF THEN 1
  ELSE IF bb = 1 /\ Hex(b) = ZERO THEN 2
  ELSE 0

\* the while loop of NextMessage over the bytes of stream, entered with
\* Message = m and BreakBytes = bb: <<Message, BreakBytes>> when the bytes
\* are used up, and <<Message, 3>> at the first complete BREAK
RECURSIVE Scan(_, _, _)
Scan(m, bb, stream) ==
  IF stream = <<>> THEN <<m, bb>>
  ELSE IF bb = 2 /\ Hex(Head(stream)) = ZERO THEN <<m, 3>>
  ELSE Scan(Accumulate(m, bb, Head(stream)), Advance(bb, Head(stream)),
            Tail(stream))

\* the bytes read and not yet appended while a BREAK may be starting
Pending(bb) == IF bb = 0 THEN <<>> ELSE IF bb = 1 THEN <<FF>> ELSE <<FF, ZERO>>

\* the bytes the source may deliver next
Source(m, bb) ==
  LET short == ShortBytes(m)
      size == IF Len(m) >= 3 /\ m[3] \in DOMAIN MessageParseDispatcher
              THEN OwnSize(MessageParseDispatcher[m[3]]) ELSE 0
      last == IF Len(m) + Len(Pending(bb)) + 1 = size
              THEN {CRCOver(0, m \o Pending(bb))} ELSE {}
  IN  { b \in short \cup Offered \cup last :
          LET m2 == Accumulate(m, bb, b)
          IN  \/ Len(m2) <= MaxRaw /\ b \in short
              \/ Len(m2) > MaxRaw /\ Template(m2) }

----------------------------------------------------------------------------
(* Domoticz.  urllib2.urlopen(..) and Page.read() end normally or raise;   *)
(* the except clause of UpdateDomoticz and UpdateDomoticzText names three  *)
(* exception classes.  socket.error stands for the exceptions of the other *)
(* classes these calls raise (socket.error and socket.timeout from         *)
(* getresponse() and read(), httplib.IncompleteRead).                       *)

SinkOutcomes == {"ok", "HTTPError", "URLError", "BadStatusLine", "socket.error"}

\* except (urllib2.HTTPError, urllib2.URLError, httplib.BadStatusLine)
Caught == {"HTTPError", "URLError", "BadStatusLine"}

----------------------------------------------------------------------------
(* The program.                                                             *)

\* the minimum size test of NextMessage taken one byte too low
LongEnoughAtFour(m) == Len(m) > 3

\* the length test moved down by two: buffers of 3 entries go on
LongEnoughAtThree(m) == Len(m) > 2

\* if len(Message) > 4
LongEnough(m) == Len(m) > 4

Init ==
  /\ pc = "NextMessage"
  /\ Message = <<>>
  /\ BreakBytes = 0
  /\ Candidate = <<>>
  /\ did = {}
  /\ Discarded = FALSE
  /\ OK = FALSE
  /\ decoder = "none"
  /\ Result = NoRecord
  /\ todo = <<>>
  /\ Sink = <<>>
  /\ exc = "none"
  /\ Input = <<>>
  /\ Expected = <<>>

\* one pass of the while loop of NextMessage with the byte b read
Read(b) ==
  LET char == Hex(b) IN
       IF BreakBytes = 2 /\ char = ZERO
       THEN \* Complete Break Received
            /\ BreakBytes' = 0
            /\ Candidate' = Message
            /\ IF LongEnough(Message)
               THEN IF CRCOK(PostProcessMessage(Message))
                    THEN /\ Message' = PostProcessMessage(Message)
                         /\ OK' = TRUE
                         /\ did' = {"BREAK", "PostProcessMessage", "CRCOK", "return"}
                         /\ pc' = "NextMessageOfInterest"
                    ELSE /\ Message' = <<>>
                         /\ OK' = FALSE
                         /\ did' = {"BREAK", "PostProcessMessage", "CRCOK"}
                         /\ pc' = "NextMessage"
               ELSE /\ Message' = <<>>
                    /\ OK' = FALSE
                    /\ did' = {"BREAK"}
                    /\ pc' = "NextMessage"
       ELSE /\ Message' = Accumulate(Message, BreakBytes, b)
            /\ BreakBytes' = Advance(BreakBytes, b)
            /\ Candidate' = <<>>
            /\ did' = {}
            /\ OK' = FALSE
            /\ pc' = "NextMessage"

\* one pass of the while loop of NextMessage: read a byte and scan it
ReadByte ==
  /\ pc = "NextMessage"
  /\ \E b \in Source(Message, BreakBytes) : Read(b)
  /\ UNCHANGED <<Discarded, decoder, Result, todo, Sink, exc, Input, Expected>>

\* NextMessageOfInterest after NextMessage has returned: the has_key test
CheckInterest ==
  /\ pc = "NextMessageOfInterest"
  /\ IF Len(Message) < 3
     THEN \* Message[2] raises IndexError
          /\ pc' = "Crashed"
          /\ exc' = "IndexError"
          /\ UNCHANGED <<Message, BreakBytes>>
     ELSE IF At(Message, 2) \in DOMAIN MessageParseDispatcher
     THEN /\ pc' = "MainLoop"
          /\ UNCHANGED <<Message, BreakBytes, exc>>
     ELSE \* the next call of NextMessage starts
          /\ pc' = "NextMessage"
          /\ Message' = <<>>
          /\ BreakBytes' = 0
          /\ UNCHANGED exc
  /\ Candidate' = <<>>
  /\ did' = IF Len(Message) >= 3 /\ At(Message, 2) \notin DOMAIN MessageParseDispatcher
            THEN {"skipped"} ELSE {}
  /\ OK' = FALSE
  /\ UNCHANGED <<Discarded, decoder, Result, todo, Sink>>
  /\ UNCHANGED <<Input, Expected>>

\* a parse function d is called with Msg and runs up to its first push
Enter(d, Msg) ==
  /\ decoder' = d
  /\ Sink' = <<>>
  /\ IF Len(Msg) < 3
     THEN \* Msg[2] raises IndexError
          /\ pc' = "Crashed"
          /\ exc' = "IndexError"
          /\ Result' = NoRecord
          /\ todo' = <<>>
     ELSE IF Sanity(d, Msg)
     THEN /\ pc' = "Push"
          /\ Result' = Fields(d, Msg)
          /\ todo' = Pushes(d, Fields(d, Msg))
          /\ UNCHANGED exc
     ELSE /\ pc' = "Returned"
          /\ Result' = NoRecord
          /\ todo' = <<>>
          /\ UNCHANGED exc

\* main loop: ProcessedResult = MessageParseDispatcher[Result[2]](Result)
Dispatch ==
  /\ pc = "MainLoop"
  /\ Enter(MessageParseDispatcher[At(Message, 2)], Message)
  /\ UNCHANGED <<Message, BreakBytes, Candidate, did, Discarded, OK>>
  /\ UNCHANGED <<Input, Expected>>

\* the running parse function goes on after a push: it sets the system
\* status or computes the efficiency if the push of it is next, and returns
\* after its last push
Continue(rest) ==
  /\ todo' = rest
  /\ IF rest = <<>>
     THEN pc' = "Returned" /\ UNCHANGED <<Result, exc>>
     ELSE IF Head(rest) = "SystemEfficiencyURL"
     THEN IF EfficiencyKeyError(Result.FlowReturnTemperature)
          THEN pc' = "Crashed" /\ exc' = "KeyError" /\ UNCHANGED Result
          ELSE /\ pc' = "Push"
               /\ Result' = Result @@
                    [Efficiency |-> CalculateSystemEfficiency(Result.FlowReturnTemperature)]
               /\ UNCHANGED exc
     ELSE IF Head(rest) = "SystemStatusURL"
     THEN /\ pc' = "Push"
          /\ Result' = Result @@ [SystemStatus |-> SystemStatus(Result.StatusCode)]
          /\ UNCHANGED exc
     ELSE pc' = "Push" /\ UNCHANGED <<Result, exc>>

\* UpdateDomoticz / UpdateDomoticzText for the next URL of the parse function
Push ==
  /\ pc = "Push"
  /\ \E o \in SinkOutcomes :
       IF o = "ok"
       THEN /\ Sink' = Append(Sink, <<Head(todo), Pushed(Head(todo), Result)>>)
            /\ Continue(Tail(todo))
       ELSE IF o \in Caught
       THEN \* the error is reported on the console
            /\ Sink' = Sink
            /\ Continue(Tail(todo))
       ELSE /\ pc' = "Crashed"
            /\ exc' = o
            /\ UNCHANGED <<Sink, todo, Result>>
  /\ UNCHANGED <<Message, BreakBytes, Candidate, did, Discarded, OK, decoder>>
  /\ UNCHANGED <<Input, Expected>>

\* main loop: print, sleep, and the next NextMessageOfInterest call starts;
\* what belonged to the message is dropped
EndOfLoop ==
  /\ pc = "Returned"
  /\ pc' = "NextMessage"
  /\ Message' = <<>>
  /\ BreakBytes' = 0
  /\ decoder' = "none"
  /\ Result' = NoRecord
  /\ Sink' = <<>>
  /\ UNCHANGED <<Candidate, did, Discarded, OK, todo, exc>>
  /\ UNCHANGED <<Input, Expected>>

Next == ReadByte \/ CheckInterest \/ Dispatch \/ Push \/ EndOfLoop

Spec == Init /\ [][Next]_vars

----------------------------------------------------------------------------
(* The parse functions on their own: one call of a parse function with a   *)
(* message of at least three bytes, of any type and size.                   *)

\* the sizes of the messages handed to a parse function
TestSizes == {3, 5, 19, 22, 30, 32, 33}

\* the type bytes of those messages: the registered ones and 0x06
TestTypes == TypeBytes \cup {6}

\* a message of n bytes of type t, byte 18 being v and the others 0x00
TestFrame(n, t, v) ==
  [i \in 1..n |-> IF i = 3 THEN Hex(t) ELSE IF i = 19 THEN Hex(v) ELSE ZERO]

InitDecode ==
  /\ pc = "Call"
  /\ decoder \in Decoders
  /\ Message \in {TestFrame(n, t, v) : n \in TestSizes, t \in TestTypes, v \in {0, 200}}
  /\ BreakBytes = 0
  /\ Candidate = <<>>
  /\ did = {}
  /\ Discarded = FALSE
  /\ OK = FALSE
  /\ Result = NoRecord
  /\ todo = <<>>
  /\ Sink = <<>>
  /\ exc = "none"
  /\ Input = <<>>
  /\ Expected = <<>>

CallDecoder ==
  /\ pc = "Call"
  /\ Enter(decoder, Message)
  /\ UNCHANGED <<Message, BreakBytes, Candidate, did, Discarded, OK>>
  /\ UNCHANGED <<Input, Expected>>

NextDecode == CallDecoder \/ Push

SpecDecode == InitDecode /\ [][NextDecode]_vars

----------------------------------------------------------------------------
(* The CRC functions on their own: a buffer is built byte by byte, closed  *)
(* with the CRC byte CalculateNefitEMSCRC gives for it, checked with       *)
(* CRCOK, and then one bit of it is flipped and it is checked again.        *)

\* the bytes offered after the first one (the first is any byte)
CrcAlphabet == {0, 255}

InitCRC ==
  /\ pc = "Build"
  /\ Message = <<>>
  /\ BreakBytes = 0
  /\ Candidate = <<>>
  /\ did = {}
  /\ Discarded = FALSE
  /\ OK = FALSE
  /\ decoder = "none"
  /\ Result = NoRecord
  /\ todo = <<>>
  /\ Sink = <<>>
  /\ exc = "none"
  /\ Input = <<>>
  /\ Expected = <<>>

Extend ==
  /\ pc = "Build"
  /\ Len(Message) < MaxCrcLen
  /\ \E b \in (IF Message = <<>> THEN Byte ELSE CrcAlphabet) :
       Message' = Append(Message, Hex(b))
  /\ UNCHANGED <<pc, BreakBytes, Candidate, did, Discarded, OK, decoder, Result, todo, Sink, exc>>
  /\ UNCHANGED <<Input, Expected>>

\* Message + [x] is handed to CalculateNefitEMSCRC, the result is appended to
\* Message in the place of x, and the buffer is handed to CRCOK
AppendCRC ==
  /\ pc = "Build"
  /\ \E x \in {0, 85, 255} :
       LET crc == CalculateNefitEMSCRC(Append(Message, Hex(x)))
           F == Append(Message, Hex(crc))
       IN  /\ Message' = F
           /\ OK' = CRCOK(F)
  /\ Candidate' = Message
  /\ did' = {"CRCOK"}
  /\ UNCHANGED Discarded
  /\ pc' = "Checked"
  /\ UNCHANGED <<BreakBytes, decoder, Result, todo, Sink, exc>>
  /\ UNCHANGED <<Input, Expected>>

\* one bit of one byte of an accepted buffer is flipped, and CRCOK is asked
FlipBit ==
  /\ pc = "Checked"
  /\ OK
  /\ \E i \in 1..Len(Message), k \in {1, 2, 4, 8, 16, 32, 64, 128} :
       LET F == [Message EXCEPT ![i] = Hex(Xor(Int16(Message[i]), k))]
       IN  /\ Message' = F
           /\ OK' = CRCOK(F)
  /\ Candidate' = Message
  /\ did' = {"CRCOK"}
  /\ UNCHANGED Discarded
  /\ pc' = "Flipped"
  /\ UNCHANGED <<BreakBytes, decoder, Result, todo, Sink, exc>>
  /\ UNCHANGED <<Input, Expected>>

NextCRC == Extend \/ AppendCRC \/ FlipBit

SpecCRC == InitCRC /\ [][NextCRC]_vars

----------------------------------------------------------------------------
(* CalculateSystemEfficiency on its own: one call with a temperature, as   *)
(* UBAMonitorFast makes it with Result['FlowReturnTemperature'].            *)

\* the temperatures handed to CalculateSystemEfficiency: every tenth of a
\* degree from -MaxTemperature to MaxTemperature
Temperatures ==
  {Float(n, 10) : n \in (0 - 10 * MaxTemperature)..(10 * MaxTemperature)}

InitEfficiency ==
  /\ pc = "CallEfficiency"
  /\ Result \in {[FlowReturnTemperature |-> t] : t \in Temperatures}
  /\ Message = <<>>
  /\ BreakBytes = 0
  /\ Candidate = <<>>
  /\ did = {}
  /\ Discarded = FALSE
  /\ OK = FALSE
  /\ decoder = "none"
  /\ todo = <<>>
  /\ Sink = <<>>
  /\ exc = "none"
  /\ Input = <<>>
  /\ Expected = <<>>

\* Result['Efficiency']=CalculateSystemEfficiency(Result['FlowReturnTemperature'])
CallEfficiency ==
  /\ pc = "CallEfficiency"
  /\ IF EfficiencyKeyError(Result.FlowReturnTemperature)
     THEN pc' = "Crashed" /\ exc' = "KeyError" /\ UNCHANGED Result
     ELSE /\ pc' = "Returned"
          /\ Result' = Result @@
               [Efficiency |-> CalculateSystemEfficiency(Result.FlowReturnTemperature)]
          /\ UNCHANGED exc
  /\ UNCHANGED <<Message, BreakBytes, Candidate, did, Discarded, OK, decoder, todo, Sink>>
  /\ UNCHANGED <<Input, Expected>>

NextEfficiency == CallEfficiency

SpecEfficiency == InitEfficiency /\ [][NextEfficiency]_vars

----------------------------------------------------------------------------
(* PostProcessMessage on its own: one call with a buffer NextMessage has   *)
(* accumulated when a BREAK arrives (more than 4 entries, BreakBytes 0).    *)

\* the bytes of the runs read before the BREAK: 0x00, 0x08 and 0xff
StuffAlphabet == {0, 8, 255}

\* the runs of bytes read before the BREAK
Streams ==
  UNION {[1..n -> StuffAlphabet] : n \in 5..MaxStuffed}

\* the buffers NextMessage hands to PostProcessMessage after these runs
Buffers ==
  {Scan(<<>>, 0, st)[1] :
     st \in {x \in Streams : /\ Scan(<<>>, 0, x)[2] = 0
                             /\ LongEnough(Scan(<<>>, 0, x)[1])}}

InitPostProcess ==
  /\ pc = "Buffer"
  /\ Message \in Buffers
  /\ BreakBytes = 0
  /\ Candidate = <<>>
  /\ did = {}
  /\ Discarded = FALSE
  /\ OK = FALSE
  /\ decoder = "none"
  /\ Result = NoRecord
  /\ todo = <<>>
  /\ Sink = <<>>
  /\ exc = "none"
  /\ Input = <<>>
  /\ Expected = <<>>

\* Message = PostProcessMessage(Message)
CallPostProcess ==
  /\ pc = "Buffer"
  /\ Message' = PostProcessMessage(Message)
  /\ Candidate' = Message
  /\ did' = {"PostProcessMessage"}
  /\ UNCHANGED Discarded
  /\ pc' = "Processed"
  /\ UNCHANGED <<BreakBytes, OK, decoder, Result, todo, Sink, exc>>
  /\ UNCHANGED <<Input, Expected>>

NextPostProcess == CallPostProcess

SpecPostProcess == InitPostProcess /\ [][NextPostProcess]_vars

----------------------------------------------------------------------------
(* ConvertToFloat and ConvertToint on their own: both are called with the  *)
(* same list of bytes, ConvertToFloat with a scalar.                        *)

\* the bytes of the lists handed to the conversion functions
ConvertBytes == {0, 1, 255}

\* the scalars handed to ConvertToFloat: 1.0, 0.1, 0.5 and 0.01
Scalars == {One, Tenth, Half, Float(1, 100)}

InitConvert ==
  /\ pc = "Convert"
  /\ Message \in UNION {[1..n -> {Hex(b) : b \in ConvertBytes}] : n \in 0..MaxWidth}
  /\ Result \in {[scalar |-> x] : x \in Scalars}
  /\ BreakBytes = 0
  /\ Candidate = <<>>
  /\ did = {}
  /\ Discarded = FALSE
  /\ OK = FALSE
  /\ decoder = "none"
  /\ todo = <<>>
  /\ Sink = <<>>
  /\ exc = "none"
  /\ Input = <<>>
  /\ Expected = <<>>

\* ConvertToFloat(Message, scalar) and ConvertToint(Message)
CallConvert ==
  /\ pc = "Convert"
  /\ Result' = Result @@
       [ ConvertToFloat |-> ConvertToFloat(Message, Result.scalar),
         ConvertToint |-> ConvertToint(Message) ]
  /\ pc' = "Converted"
  /\ UNCHANGED <<Message, BreakBytes, Candidate, did, Discarded, OK, decoder,
                 todo, Sink, exc>>
  /\ UNCHANGED <<Input, Expected>>

NextConvert == CallConvert

SpecConvert == InitConvert /\ [][NextConvert]_vars

----------------------------------------------------------------------------
(* NextMessage on a wire with PARMRK set: messages with a right CRC are    *)
(* sent one after the other, the serial driver doubles each 0xff of a      *)
(* message and puts 0xff 0x00 0x00 for the BREAK after it, and NextMessage *)
(* is called again each time it has returned.                               *)

\* the bytes of a message before its CRC: every four bytes 0x00 / 0xff
\* (0x00 0xff 0x00 0x00 has 0xff 0x00 0x00 in it, the CRC of 0x00 0x00 0x00
\* 0xff is 0xff) and two longer ones of type 0x18
Payloads ==
  [1..4 -> {ZERO, FF}] \cup
  { <<Hex(8), ZERO, Hex(24), ZERO, FF, ZERO, ZERO, FF>>,
    <<Hex(8), ZERO, Hex(24), FF, FF, FF>> }

\* the message of a payload: the payload and its CRC
Closed(P) == Append(P, Hex(CRCOver(0, P)))

Frames == {Closed(P) : P \in Payloads}

\* what is read for the messages sent: each message stuffed, then the BREAK
RECURSIVE Wire(_)
Wire(sent) ==
  IF sent = <<>> THEN <<>>
  ELSE Stuffed(Head(sent)) \o <<FF, ZERO, ZERO>> \o Wire(Tail(sent))

InitRoundTrip ==
  /\ pc = "NextMessage"
  /\ Message = <<>>
  /\ BreakBytes = 0
  /\ Candidate = <<>>
  /\ did = {}
  /\ Discarded = FALSE
  /\ OK = FALSE
  /\ decoder = "none"
  /\ Result = NoRecord
  /\ todo = <<>>
  /\ Sink = <<>>
  /\ exc = "none"
  /\ Expected \in UNION {[1..n -> Frames] : n \in 1..MaxFrames}
  /\ Input = Wire(Expected)

\* one pass of the while loop of NextMessage: the next byte on the wire is
\* read and scanned
ReadInput ==
  /\ pc = "NextMessage"
  /\ Input # <<>>
  /\ Read(Int16(Head(Input)))
  /\ Input' = Tail(Input)
  /\ Discarded' = (Discarded \/ ("BREAK" \in did' /\ "return" \notin did'))
  /\ UNCHANGED <<decoder, Result, todo, Sink, exc, Expected>>

\* CallAgain without Message = [] on entry: the buffer of the call before
\* is kept
CallAgainKeeping ==
  /\ pc = "NextMessageOfInterest"
  /\ pc' = "NextMessage"
  /\ BreakBytes' = 0
  /\ Candidate' = <<>>
  /\ did' = {}
  /\ Discarded' = FALSE
  /\ OK' = FALSE
  /\ Expected' = IF Expected = <<>> THEN <<>> ELSE Tail(Expected)
  /\ UNCHANGED <<Message, decoder, Result, todo, Sink, exc, Input>>

\* NextMessage has returned and is called again
CallAgain ==
  /\ pc = "NextMessageOfInterest"
  /\ pc' = "NextMessage"
  /\ Message' = <<>>
  /\ BreakBytes' = 0
  /\ Candidate' = <<>>
  /\ did' = {}
  /\ Discarded' = FALSE
  /\ OK' = FALSE
  /\ Expected' = IF Expected = <<>> THEN <<>> ELSE Tail(Expected)
  /\ UNCHANGED <<decoder, Result, todo, Sink, exc, Input>>

NextRoundTrip == ReadInput \/ CallAgain

SpecRoundTrip == InitRoundTrip /\ [][NextRoundTrip]_vars

----------------------------------------------------------------------------
(* NextMessage on a wire with noise: any bytes and a BREAK are read before *)
(* a message that is sent as above.                                         *)

\* the bytes read before the first BREAK: any of 0x00, 0x08 and 0xff
Noise == UNION {[1..n -> {ZERO, Hex(8), FF}] : n \in 0..MaxNoise}

InitResync ==
  /\ pc = "NextMessage"
  /\ Message = <<>>
  /\ BreakBytes = 0
  /\ Candidate = <<>>
  /\ did = {}
  /\ Discarded = FALSE
  /\ OK = FALSE
  /\ decoder = "none"
  /\ Result = NoRecord
  /\ todo = <<>>
  /\ Sink = <<>>
  /\ exc = "none"
  /\ Expected \in [1..1 -> Frames]
  /\ \E x \in Noise : Input = x \o <<FF, ZERO, ZERO>> \o Wire(Expected)

NextResync == ReadInput \/ CallAgain

SpecResync == InitResync /\ [][NextResync]_vars

----------------------------------------------------------------------------
(* NextMessage called again and again on one stream of bytes, next to the  *)
(* while loop of NextMessage run once over the whole stream.               *)

\* the while loop of NextMessage as one run over stream, from Message = m
\* and BreakBytes = bb, that goes on with an empty buffer where NextMessage
\* returns: the messages it gives, in order
RECURSIVE ContinuousRun(_, _, _)
ContinuousRun(m, bb, stream) ==
  IF stream = <<>> THEN <<>>
  ELSE LET b == Int16(Head(stream)) IN
       IF bb = 2 /\ Hex(b) = ZERO
       THEN IF LongEnough(m) /\ CRCOK(PostProcessMessage(m))
            THEN <<PostProcessMessage(m)>> \o ContinuousRun(<<>>, 0, Tail(stream))
            ELSE ContinuousRun(<<>>, 0, Tail(stream))
       ELSE IF Len(m) >= 0 /\ bb >= 0
            THEN ContinuousRun(Accumulate(m, bb, b), Advance(bb, b), Tail(stream))
            ELSE <<>>

\* what is read between two BREAKs: a message as sent or stuffed, or up to
\* two bytes of 0x00 and 0xff
Pieces ==
  LET sent == {Closed(P) : P \in {Q \in [1..4 -> {ZERO, FF}] :
                                      Q[1] = ZERO /\ Q[2] = ZERO}}
  IN  sent \cup {Stuffed(f) : f \in sent}
           \cup UNION {[1..n -> {ZERO, FF}] : n \in 0..2}

\* the bytes read for a sequence of pieces: each piece, then the BREAK
RECURSIVE Joined(_)
Joined(ps) ==
  IF ps = <<>> THEN <<>>
  ELSE Head(ps) \o <<FF, ZERO, ZERO>> \o Joined(Tail(ps))

InitCalls ==
  /\ pc = "NextMessage"
  /\ Message = <<>>
  /\ BreakBytes = 0
  /\ Candidate = <<>>
  /\ did = {}
  /\ Discarded = FALSE
  /\ OK = FALSE
  /\ decoder = "none"
  /\ Result = NoRecord
  /\ todo = <<>>
  /\ Sink = <<>>
  /\ exc = "none"
  /\ \E ps \in UNION {[1..n -> Pieces] : n \in 1..MaxFrames} :
       Input = Joined(ps)
  /\ Expected = ContinuousRun(<<>>, 0, Input)

NextCalls == ReadInput \/ CallAgain

SpecCalls == InitCalls /\ [][NextCalls]_vars

----------------------------------------------------------------------------
(* Properties.                                                              *)

\* NextMessage has returned Message and it has not been dropped since
Handed == pc \in {"NextMessageOfInterest", "MainLoop", "Push", "Returned"}

\* the exception classes a push to Domoticz can raise
SinkErrors == SinkOutcomes \ {"ok"}

\* the de-stuffer as specified: every adjacent pair 0xff 0xff becomes one
\* 0xff, and a 0xff with no 0xff next to it stays
RECURSIVE CollapsePairs(_)
CollapsePairs(m) ==
  IF m = <<>> THEN <<>>
  ELSE IF Len(m) >= 2 /\ m[1] = FF /\ m[2] = FF
       THEN <<FF>> \o CollapsePairs(SubSeq(m, 3, Len(m)))
       ELSE <<m[1]>> \o CollapsePairs(Tail(m))

\* C1: no input is fatal: whatever bytes arrive and whatever the field values
\* of a message handed to its parse function are, no exception raised while
\* the input is processed (a failed dictionary lookup, a bad index) ends the
\* main loop.
C1_NoInputIsFatal == exc \notin {"KeyError", "IndexError"}

\* C2: a literal 0xff that the scan put into the buffer as data is in the
\* message NextMessage returns exactly once and in its place: the returned
\* message is the buffer with each 0xff 0xff pair made one 0xff and every
\* other byte, a lone 0xff too, unchanged.
C2_LiteralFFOnce ==
  "return" \in did => Message = CollapsePairs(Candidate)

\* C3: every message NextMessage returns, and so every message a parse
\* function gets, ends with the CRC of its other (de-stuffed) bytes.
C3_ReturnedFrameHasCRC ==
  Handed => /\ Message # <<>>
            /\ Int16(Message[Len(Message)]) =
                 CRCOver(0, SubSeq(Message, 1, Len(Message) - 1))

\* a message is returned after de-stuffing took a byte out of the buffer
C3_Witness ==
  /\ "return" \in did
  /\ pc = "NextMessageOfInterest"
  /\ Len(Candidate) > Len(Message)
  /\ \E i \in 1..Len(Message) : Message[i] = FF

\* C4: every de-stuffed candidate that is CRC-checked, returned or handed to
\* a parse function has at least 5 bytes: no shorter sequence is returned by
\* NextMessage, and none is ever handed to a parse function.
C4_AtLeastFiveBytes ==
  (pc = "MainLoop" \/ decoder # "none") => Len(Message) >= 5

\* C5: a BREAK confirmed with fewer than 5 bytes accumulated gives no
\* candidate: nothing is de-stuffed or CRC-checked, NextMessage does not
\* return, and the scan of the next message starts with an empty buffer.
C5_ShortFragmentDropped ==
  ("BREAK" \in did /\ Len(Candidate) < 5) =>
     /\ did = {"BREAK"}
     /\ ~OK
     /\ pc = "NextMessage"
     /\ Message = <<>>
     /\ BreakBytes = 0
     /\ decoder = "none"

C5_Witness == did = {"BREAK"} /\ Len(Candidate) = 4 /\ Message = <<>>

\* C6: a non-empty buffer P closed with the byte CalculateNefitEMSCRC gives
\* for P + [any byte] is accepted by CRCOK.
C6_CorrectCRCAccepted ==
  (pc = "Checked" /\ Candidate # <<>>) => OK

C6_Witness ==
  /\ pc = "Checked"
  /\ Len(Candidate) = MaxCrcLen
  /\ Candidate[1] = FF
  /\ OK

\* C7: an accepted buffer with one bit of one byte flipped is rejected.
C7_BitFlipRejected == pc = "Flipped" => ~OK

C7_Witness ==
  /\ pc = "Flipped"
  /\ Len(Message) >= 3
  /\ Message[1] # Candidate[1]
  /\ ~OK

\* C8: a parse function called with a message that is not of its type or not
\* of its size returns an empty record, raises nothing and pushes nothing.
C8_WrongFrameEmptyRecord ==
  (pc # "Call" /\ (At(Message, 2) # OwnType(decoder) \/ Len(Message) # OwnSize(decoder)))
    => /\ pc = "Returned"
       /\ DOMAIN Result = {}
       /\ Sink = <<>>
       /\ todo = <<>>
       /\ exc = "none"

C8_Witness ==
  /\ pc = "Returned"
  /\ decoder = "UBAMonitorFast"
  /\ At(Message, 2) = Hex(25)
  /\ Len(Message) = 30
  /\ DOMAIN Result = {}

\* the registered message types 0x18, 0x19, 0x34 and 0x91
C9_Types == {Hex(24), Hex(25), Hex(52), Hex(145)}

C9_Step ==
  \* a returned message of another type is dropped and the scan goes on
  /\ (pc = "NextMessageOfInterest" /\ Len(Message) >= 3 /\ At(Message, 2) \notin C9_Types)
       => /\ pc' = "NextMessage"
          /\ Message' = <<>>
          /\ BreakBytes' = 0
          /\ decoder' = "none"
          /\ Sink' = <<>>
          /\ exc' = "none"
  \* only messages of a registered type reach the main loop, unchanged
  /\ pc' = "MainLoop" => /\ At(Message', 2) \in C9_Types
                         /\ Message' = Message
  \* a parse function is called only from the main loop, and it is the one
  \* of the type of the message
  /\ (decoder' # decoder /\ decoder' # "none")
       => /\ pc = "MainLoop"
          /\ OwnType(decoder') = At(Message, 2)
          /\ Message' = Message

\* C9: the registry is a whitelist: only messages whose type byte is 0x18,
\* 0x19, 0x34 or 0x91 are returned by NextMessageOfInterest, any other
\* CRC-valid message is dropped with no parse function called and nothing
\* pushed, and a returned message goes to the parse function of its type.
C9_Whitelist == [][C9_Step]_vars

C9_Witness == did = {"skipped"} /\ pc = "NextMessage" /\ Sink = <<>>

\* C10: an error raised while a value is pushed to Domoticz never leaves
\* UpdateDomoticz / UpdateDomoticzText: it does not end the main loop.
C10_SinkFailureCaught == exc \notin SinkErrors

\* x < y for floats
FloatLess(x, y) == x[1] * y[2] < y[1] * x[2]

\* C11: CalculateSystemEfficiency raises KeyError (it returns no default or
\* clamped value) for every temperature below 10 and for every temperature
\* of 100 or more, and returns a value, raising nothing, for every
\* temperature from 10 up to but not including 100.
C11_EfficiencyDomain ==
  pc # "CallEfficiency" =>
    LET T == Result.FlowReturnTemperature
    IN  IF FloatLess(T, Float(10, 1)) \/ ~FloatLess(T, Float(100, 1))
        THEN /\ pc = "Crashed"
             /\ exc = "KeyError"
             /\ "Efficiency" \notin DOMAIN Result
        ELSE /\ pc = "Returned"
             /\ exc = "none"
             /\ "Efficiency" \in DOMAIN Result

\* the call with 100.0 has raised KeyError
C11_Witness ==
  /\ pc = "Crashed"
  /\ exc = "KeyError"
  /\ Result.FlowReturnTemperature = Float(100, 1)
\* C12: end to end, every CRC-valid 19-byte message of type 0x91 that is read
\* followed by a BREAK is returned by NextMessage as it is, Moduline300Status
\* makes of it the record with exactly Setpoint = byte 5 x 0.5 and Actual =
\* (256 x byte 15 + byte 16) x 0.1, and both values are pushed to Domoticz:
\* the function gets to its end, and what Domoticz received are these values.
C12_RoomStatusEndToEnd ==
  /\ ("BREAK" \in did /\ Len(Candidate) = 19 /\ At(Candidate, 2) = Hex(145)
         /\ CRCOK(Candidate))
       => ("return" \in did /\ Message = Candidate)
  /\ (decoder = "Moduline300Status" /\ Len(Message) = 19 /\ At(Message, 2) = Hex(145))
       => LET Setpoint == Float(Int16(At(Message, 5)), 2)
              Actual == Float(256 * Int16(At(Message, 15)) + Int16(At(Message, 16)), 10)
          IN  /\ pc \in {"Push", "Returned"}
              /\ Result = [Setpoint |-> Setpoint, Actual |-> Actual]
              /\ pc = "Returned" => todo = <<>>
              /\ \A i \in 1..Len(Sink) :
                    \/ Sink[i] = <<"RoomTemperatureURL", Actual>>
                    \/ Sink[i] = <<"RoomSetpointURL", Setpoint>>
\* C13: for every buffer it is handed, PostProcessMessage makes one 0xff of
\* each adjacent pair 0xff 0xff and leaves every other byte as it is and in
\* its place; a 0xff with no 0xff next to it is once in the result.
C13_PairsCollapsed ==
  pc = "Processed" => Message = CollapsePairs(Candidate)
\* a step of NextMessage in which the byte read ends a possible BREAK that
\* had one byte (0xff) or two (0xff 0x00)
C14_Refuted1 == pc = "NextMessage" /\ BreakBytes = 1 /\ BreakBytes' # 2
C14_Refuted2 == pc = "NextMessage" /\ BreakBytes = 2 /\ "BREAK" \notin did'

C14_RescanStep ==
  /\ C14_Refuted1 =>
       \E b \in Byte \ {0} :
          <<Message', BreakBytes'>> = Scan(Append(Message, FF), 0, <<b>>)
  /\ C14_Refuted2 =>
       \E b \in Byte \ {0} :
          <<Message', BreakBytes'>> = Scan(Message \o <<FF, ZERO>>, 0, <<b>>)

\* C14 as stated: the byte b that ends a possible BREAK is scanned as in
\* state 0: after 0xff b the buffer has got 0xff and the scan is where
\* scanning b in state 0 leaves it (b = 0xff: BreakBytes 1), and after
\* 0xff 0x00 b the buffer has got 0xff 0x00 and then the same; so 0xff
\* 0xff 0x00 0x00 and 0xff 0x00 0xff 0x00 0x00 end in a BREAK.
C14_RefutingByteRescanned == [][C14_RescanStep]_vars

C14_AppendStep ==
  /\ C14_Refuted1 =>
       /\ BreakBytes' = 0
       /\ \E b \in Byte \ {0} :
            /\ Message' = Message \o <<FF, Hex(b)>>
            /\ b # 255 =>
                 <<Message', BreakBytes'>> = Scan(Append(Message, FF), 0, <<b>>)
  /\ C14_Refuted2 =>
       /\ BreakBytes' = 0
       /\ \E b \in Byte \ {0} :
            /\ Message' = Message \o <<FF, ZERO, Hex(b)>>
            /\ b # 255 =>
                 <<Message', BreakBytes'>> = Scan(Message \o <<FF, ZERO>>, 0, <<b>>)

\* C14 as the program has it: the byte b that ends a possible BREAK is
\* appended as data, after the 0xff or 0xff 0x00 held back, and the scan is
\* in state 0 again, whatever b is; this is what scanning b in state 0
\* gives for every b but 0xff, which is not taken as the start of a BREAK.
C14_RefutingByteAppended == [][C14_AppendStep]_vars

\* 0xff 0xff 0x00 0x00 has been read from the start of a message and no
\* BREAK was seen: the four bytes are in the buffer
C14_Witness ==
  /\ pc = "NextMessage"
  /\ Message = <<FF, FF, ZERO, ZERO>>
  /\ BreakBytes = 0
  /\ did = {}
\* the buffer c is a message of at least 5 bytes with a right CRC as the
\* serial driver delivers it (each 0xff of the message doubled)
C15_WellFormed(c) ==
  /\ Stuffed(CollapsePairs(c)) = c
  /\ Len(CollapsePairs(c)) >= 5
  /\ CRCOK(CollapsePairs(c))

C15_Step ==
  pc = "NextMessage" =>
    IF "BREAK" \in did'
    THEN \* the buffer of the BREAK is what was accumulated
         /\ Candidate' = Message
         \* a buffer thrown away leaves state 0 and an empty buffer
         /\ "return" \notin did' =>
              /\ pc' = "NextMessage"
              /\ Message' = <<>>
              /\ BreakBytes' = 0
              /\ Discarded'
         \* after a buffer was thrown away, a well-formed message is returned
         /\ (Discarded /\ C15_WellFormed(Message)) =>
              /\ "return" \in did'
              /\ pc' = "NextMessageOfInterest"
              /\ Message' = CollapsePairs(Message)
         \* the message returned at the end of the wire, after a buffer was
         \* thrown away, is the message that was sent
         /\ (Discarded /\ "return" \in did' /\ Input' = <<>>) =>
              Message' = Expected[1]
    ELSE \* the buffer and the bytes held back grow by the byte read
         LET before == Message \o Pending(BreakBytes)
             after  == Message' \o Pending(BreakBytes')
         IN  /\ Len(after) = Len(before) + 1
             /\ SubSeq(after, 1, Len(before)) = before
             /\ Int16(after[Len(after)]) \in Byte

C16_InDecoder == pc = "Push"

\* Domoticz receives a value in this step
C16_Delivery == Len(Sink') > Len(Sink)

C16_CallerPushesStep ==
  /\ C16_InDecoder => Message' = Message
  /\ C16_Delivery => pc = "Returned"

C16_DecoderPushesStep ==
  \* the parse function does not change its message
  /\ (pc = "MainLoop" \/ C16_InDecoder) => Message' = Message
  \* a parse function called with a message of its own has pushes to make
  /\ (pc = "MainLoop" /\ pc' = "Push") => todo' # <<>>
  \* every value Domoticz receives is pushed by the running parse function
  /\ C16_Delivery =>
       /\ C16_InDecoder
       /\ decoder' = decoder
       /\ Sink' = Append(Sink, <<Head(todo), Pushed(Head(todo), Result)>>)
  \* it returns its record after its last push
  /\ (pc' = "Returned" /\ DOMAIN Result' # {}) =>
       C16_InDecoder /\ todo' = <<>>
  \* and its caller pushes nothing
  /\ pc = "Returned" => ~C16_Delivery

C17_Code == <<Int16(At(Message, 22)), Int16(At(Message, 23))>>

\* the URLs Domoticz has received a value for
C17_Received == {Sink[i][1] : i \in 1..Len(Sink)}

\* C17: in the record of UBAMonitorFast, for the status code made of bytes
\* 22 and 23: if StatusDictionary has the code, StatusText is its text and
\* SystemStatus is 1 for '-H', 2 for '=H' and 0 for the other codes; if it
\* has not, the record has neither key and nothing is pushed for them.  The
\* record has SystemStatus exactly when it has StatusText.
C17_StatusFields ==
  (decoder = "UBAMonitorFast" /\ Sanity(decoder, Message)) =>
    /\ pc = "Returned" =>
         /\ Result.StatusCode = C17_Code
         /\ ("SystemStatus" \in DOMAIN Result) = ("StatusText" \in DOMAIN Result)
         /\ IF C17_Code \in {<<45, 65>>, <<45, 72>>, <<61, 72>>, <<48, 65>>,
                              <<48, 67>>, <<48, 69>>, <<48, 72>>, <<48, 76>>,
                              <<48, 85>>}
            THEN /\ Result.StatusText = StatusDictionary[C17_Code]
                 /\ Result.SystemStatus = (IF C17_Code = <<45, 72>> THEN 1
                                           ELSE IF C17_Code = <<61, 72>> THEN 2
                                           ELSE 0)
            ELSE /\ "StatusText" \notin DOMAIN Result
                 /\ "SystemStatus" \notin DOMAIN Result
    /\ C17_Code \notin DOMAIN StatusDictionary =>
         /\ C17_Received \cap {"StatusURL", "SystemStatusURL"} = {}
         /\ \A i \in 1..Len(todo) : todo[i] \notin {"StatusURL", "SystemStatusURL"}
    /\ \A i \in 1..Len(Sink) :
         /\ Sink[i][1] = "StatusURL" => Sink[i][2] = StatusDictionary[C17_Code]
         /\ Sink[i][1] = "SystemStatusURL" =>
              Sink[i][2] = (IF C17_Code = <<45, 72>> THEN 1
                            ELSE IF C17_Code = <<61, 72>> THEN 2
                            ELSE 0)

\* UBAMonitorFast has returned the record of a message with status '=H',
\* and Domoticz has received the system status 2
C17_Witness ==
  /\ pc = "Returned"
  /\ decoder = "UBAMonitorFast"
  /\ Sanity(decoder, Message)
  /\ C17_Code = <<61, 72>>
  /\ Result.SystemStatus = 2
  /\ \E i \in 1..Len(Sink) : Sink[i] = <<"SystemStatusURL", 2>>
\* the bytes of MsgData taken as one number, first byte highest: the sum of
\* byte i x 256^(n-1-i)
RECURSIVE BigEndian(_)
BigEndian(MsgData) ==
  IF MsgData = <<>> THEN 0
  ELSE 256 * BigEndian(SubSeq(MsgData, 1, Len(MsgData) - 1))
       + Int16(MsgData[Len(MsgData)])

\* C18 as stated: for a list of 1, 2 or 3 bytes and a scalar s,
\* ConvertToFloat gives ConvertToint x s, ConvertToint being the bytes taken
\* as one number, first byte highest; for a list of any other length both
\* give zero.
C18_SameAccumulation ==
  pc = "Converted" =>
    IF Len(Message) \in {1, 2, 3}
    THEN /\ Result.ConvertToint = BigEndian(Message)
         /\ Result.ConvertToFloat =
              FloatMul(Float(Result.ConvertToint, 1), Result.scalar)
    ELSE /\ Result.ConvertToint = 0
         /\ Result.ConvertToFloat = Float(0, 1)

\* C18 as the program has it: ConvertToint takes 1, 2 or 3 bytes as one
\* number, first byte highest; ConvertToFloat gives that number x s for 1
\* or 2 bytes only, and 0.0 for 3 bytes; for a list of any other length
\* both give zero.
C18_FloatUpToTwoBytes ==
  pc = "Converted" =>
    /\ Result.ConvertToint =
         (IF Len(Message) \in {1, 2, 3} THEN BigEndian(Message) ELSE 0)
    /\ Result.ConvertToFloat =
         (IF Len(Message) \in {1, 2}
          THEN FloatMul(Float(Result.ConvertToint, 1), Result.scalar)
          ELSE Float(0, 1))

\* three bytes 01 00 ff converted: ConvertToint gives 65791, ConvertToFloat
\* with the scalar 0.1 gives 0.0
C18_Witness ==
  /\ pc = "Converted"
  /\ Message = <<Hex(1), ZERO, FF>>
  /\ Result.scalar = Tenth
  /\ Result.ConvertToint = 65791
  /\ Result.ConvertToFloat = Float(0, 1)
\* entry i of the buffer m is a 0xff and the 1st, 3rd, 5th ... 0xff of m
C19_OddFF(m, i) ==
  m[i] = FF /\ Cardinality({j \in 1..i : m[j] = FF}) % 2 = 1

\* the de-stuffed bytes of the buffer m: m without those entries
RECURSIVE C19_Destuffed(_)
C19_Destuffed(m) ==
  IF m = <<>> THEN <<>>
  ELSE IF C19_OddFF(m, Len(m))
       THEN C19_Destuffed(SubSeq(m, 1, Len(m) - 1))
       ELSE Append(C19_Destuffed(SubSeq(m, 1, Len(m) - 1)), m[Len(m)])

C19_Step ==
  pc = "NextMessage" =>
    IF "BREAK" \in did'
    THEN \* the BREAK is the third byte of 0xff 0x00 0x00 as read, and the
         \* buffer then is as it was accumulated
         /\ BreakBytes = 2
         /\ Candidate' = Message
         \* de-stuffing and the CRC check come after the BREAK, once, on
         \* the whole buffer if it has more than 4 entries
         /\ ("PostProcessMessage" \in did') = (Len(Message) > 4)
         /\ ("CRCOK" \in did') = ("PostProcessMessage" \in did')
         \* the CRC is checked on the de-stuffed bytes
         /\ "CRCOK" \in did' =>
              LET clean == C19_Destuffed(Message)
              IN  /\ OK' = (CRCOver(0, AllButLast(clean))
                              = Int16(clean[Len(clean)]))
                  /\ ("return" \in did') = OK'
                  /\ "return" \in did' => Message' = clean
    ELSE \* before the BREAK nothing is de-stuffed or checked: the buffer
         \* and the bytes held back grow by the byte read, as read
         /\ did' = {}
         /\ LET before == Message \o Pending(BreakBytes)
                after  == Message' \o Pending(BreakBytes')
            IN  /\ Len(after) = Len(before) + 1
                /\ SubSeq(after, 1, Len(before)) = before
                /\ Int16(after[Len(after)]) \in Byte

\* C19: for each buffer the stages run in this order: the BREAK is found
\* on the bytes as read; the buffer is de-stuffed only as a whole and only
\* after its BREAK; the CRC is checked on the de-stuffed bytes only.  CRCOK
\* never gets a buffer that is still stuffed, and de-stuffing has no part
\* in where a BREAK is found.
C19_StageOrder == [][C19_Step]_vars

\* a message is returned whose buffer, stuffed as it was accumulated, does
\* not pass CRCOK
C19_Witness ==
  /\ "return" \in did
  /\ Len(Candidate) > Len(Message)
  /\ ~CRCOK(Candidate)
  /\ CRCOK(Message)
\* C20: on a wire with PARMRK set (each 0xff of a message read as 0xff
\* 0xff, each BREAK as 0xff 0x00 0x00) the calls of NextMessage return the
\* messages sent, byte for byte and in order, for messages of at least 5
\* bytes with a right CRC: each call returns the first message not yet
\* returned, having read its bytes and its BREAK and no more, nothing is
\* thrown away, and when the wire is read to its end every message has been
\* returned.  So it is for messages with 0xff 0x00 0x00 in them and for
\* messages that end in 0xff.
C20_RoundTrip ==
  /\ pc \in {"NextMessage", "NextMessageOfInterest"}
  /\ ~Discarded
  /\ pc = "NextMessageOfInterest" =>
       /\ Expected # <<>>
       /\ Message = Head(Expected)
       /\ Input = Wire(Tail(Expected))
  /\ (pc = "NextMessage" /\ Message = <<>> /\ BreakBytes = 0) =>
       Input = Wire(Expected)
  /\ (pc = "NextMessage" /\ Input = <<>>) =>
       /\ Expected = <<>>
       /\ Message = <<>>
       /\ BreakBytes = 0

\* the message 00 ff 00 00 d7 is returned, and the message 00 00 00 ff ff,
\* which ends in 0xff, is the next on the wire
C20_Witness ==
  /\ pc = "NextMessageOfInterest"
  /\ Message = <<ZERO, FF, ZERO, ZERO, Hex(215)>>
  /\ Len(Expected) = 2
  /\ Expected[2] = <<ZERO, ZERO, ZERO, FF, FF>>
  /\ Input = <<ZERO, ZERO, ZERO, FF, FF, FF, FF, FF, ZERO, ZERO>>

----------------------------------------------------------------------------
\* the '0xff' entries of the buffer m
C21_FFs(m) == Cardinality({i \in 1..Len(m) : m[i] = FF})

\* C21: every message NextMessage returns has at least 3 bytes after
\* de-stuffing: the buffer had more than 4 entries, de-stuffing took away
\* half of its '0xff' entries (rounded up), and a buffer of 5 entries never
\* holds 5 of them.  So Message[2] is there when NextMessageOfInterest and
\* the main loop read it, and no IndexError is raised.
C21_TypeByteReadable ==
  /\ "return" \in did =>
       /\ Len(Candidate) > 4
       /\ Len(Message) = Len(Candidate) - ((C21_FFs(Candidate) + 1) \div 2)
       /\ Len(Message) >= 3
  /\ pc \in {"NextMessageOfInterest", "MainLoop"} => Len(Message) >= 3
  /\ exc # "IndexError"

\* a message of exactly 3 bytes is returned: its buffer had 5 entries, 4 of
\* them '0xff'
C21_Witness ==
  /\ pc = "NextMessageOfInterest"
  /\ "return" \in did
  /\ Len(Candidate) = 5
  /\ C21_FFs(Candidate) = 4
  /\ Len(Message) = 3

----------------------------------------------------------------------------
\* C22: NextMessage starts every call with an empty buffer and BreakBytes
\* = 0 and still loses no byte and puts no byte in the wrong message: it
\* returns only on the last byte of a BREAK, with BreakBytes = 0 and no
\* byte held back, so the messages that calls one after the other return
\* on a stream of bytes are the messages that one run of the same loop
\* over the whole stream gives, in the same order.
C22_CallsAsOneRun ==
  /\ pc = "NextMessage" =>
       ContinuousRun(Message, BreakBytes, Input) = Expected
  /\ pc = "NextMessageOfInterest" =>
       /\ {"BREAK", "return"} \subseteq did
       /\ BreakBytes = 0
       /\ Pending(BreakBytes) = <<>>
       /\ Expected # <<>>
       /\ Message = Head(Expected)
       /\ ContinuousRun(<<>>, 0, Input) = Tail(Expected)

\* a call has returned a message and the bytes still to be read are
\* another message with a 0xff in it, stuffed, and its BREAK: the next call
\* is to return it
C22_Witness ==
  /\ pc = "NextMessageOfInterest"
  /\ "return" \in did
  /\ Len(Expected) = 2
  /\ Message = Expected[1]
  /\ \E i \in 1..Len(Expected[2]) : Expected[2][i] = FF
  /\ Input = Stuffed(Expected[2]) \o <<FF, ZERO, ZERO>>
====
